---------------------------- MODULE Spec2Model ----------------------------
(***************************************************************************)
(* A model of organize.py: the planner (plan_actions with slugify,         *)
(* extension_bucket and unique_path), the executor (apply) and the         *)
(* pipeline of main.                                                       *)
(*                                                                         *)
(* A string is a sequence of one-character strings, a path is the sequence *)
(* of its components below the filesystem root.  The disk is `files' (the  *)
(* regular files with their contents), `dirs' (the directories) and `bulk' *)
(* (runs of numbered files stem_2<suffix> .. stem_hi<suffix>, kept as a    *)
(* range so that the 9998 names unique_path can try fit in a state).       *)
(***************************************************************************)
EXTENDS Integers, Sequences, FiniteSets, TLC

VARIABLES
    files,      \* disk: path of a regular file -> its content
    dirs,       \* disk: the set of directories
    bulk,       \* disk: set of [dir, stem, suffix, hi], numbered regular files
    in_root,    \* main: in_root
    out_root,   \* main: out_root
    rules,      \* main: rules, the dict load_rules returns
    rename,     \* args.rename
    dry_run,    \* args.dry_run
    pc,         \* position of main
    walk,       \* plan_actions: the entries in_root.rglob("*") has yet to yield
    plans,      \* plan_actions: plans
    log,        \* write_log: the lines of the log file
    idx,        \* apply: index of the plan entry the loop is at
    run,        \* which invocation of the tool this is
    files0,     \* files when plan_actions of this run started
    dirs0,      \* dirs when plan_actions of this run started
    hist        \* what the previous invocation planned and how it ended

vars == <<files, dirs, bulk, in_root, out_root, rules, rename, dry_run, pc,
          walk, plans, log, idx, run, files0, dirs0, hist>>

-----------------------------------------------------------------------------
(* Bounds of the model *)

\* at most this many regular files in the initial tree below in_root
MaxFiles == 3

\* the tool is invoked at most this many times in a row
MaxRuns == 2

-----------------------------------------------------------------------------
(* Strings *)

UpperChars == <<"A","B","C","D","E","F","G","H","I","J","K","L","M",
                "N","O","P","Q","R","S","T","U","V","W","X","Y","Z">>
LowerChars == <<"a","b","c","d","e","f","g","h","i","j","k","l","m",
                "n","o","p","q","r","s","t","u","v","w","x","y","z">>
DigitChars == <<"0","1","2","3","4","5","6","7","8","9">>

Range(s) == {s[k] : k \in DOMAIN s}

Digits == Range(DigitChars)
DigitValue == [c \in Digits |-> (CHOOSE k \in DOMAIN DigitChars : DigitChars[k] = c) - 1]

\* str.lower() on one character
LowerChar(c) ==
    IF \E k \in DOMAIN UpperChars : UpperChars[k] = c
    THEN LowerChars[CHOOSE k \in DOMAIN UpperChars : UpperChars[k] = c]
    ELSE c

\* str.lower()
Lower(s) == [k \in DOMAIN s |-> LowerChar(s[k])]

\* f"{i}" for an integer i >= 0
RECURSIVE Dec(_)
Dec(i) == IF i < 10 THEN <<DigitChars[i + 1]>>
          ELSE Dec(i \div 10) \o <<DigitChars[(i % 10) + 1]>>

\* the value of a decimal numeral
RECURSIVE DecVal(_)
DecVal(s) ==
    IF s = <<>> THEN 0
    ELSE 10 * DecVal(SubSeq(s, 1, Len(s) - 1))
         + DigitValue[s[Len(s)]]

\* s is what f"{i}" prints for some i >= 0
IsDec(s) ==
    /\ Len(s) >= 1
    /\ \A k \in DOMAIN s : s[k] \in Digits
    /\ (Len(s) > 1 => s[1] # "0")

\* str.strip(): leading and trailing whitespace removed
RECURSIVE StripLeft(_)
StripLeft(s) == IF s # <<>> /\ s[1] = " " THEN StripLeft(Tail(s)) ELSE s

RECURSIVE StripRight(_)
StripRight(s) ==
    IF s # <<>> /\ s[Len(s)] = " " THEN StripRight(SubSeq(s, 1, Len(s) - 1)) ELSE s

Strip(s) == StripRight(StripLeft(s))

\* str.replace(" ", "_")
SpacesToUnderscores(s) == [k \in DOMAIN s |-> IF s[k] = " " THEN "_" ELSE s[k]]

\* the class [A-Za-z0-9._-]
SlugChars == Range(UpperChars) \cup Range(LowerChars) \cup Digits
             \cup {".", "_", "-"}

\* re.sub(r"[^A-Za-z0-9._-]+", "", name)
RECURSIVE DropOtherChars(_)
DropOtherChars(s) ==
    IF s = <<>> THEN <<>>
    ELSE IF s[1] \in SlugChars THEN <<s[1]>> \o DropOtherChars(Tail(s))
    ELSE DropOtherChars(Tail(s))

\* re.sub(r"_+", "_", name)
RECURSIVE CollapseUnderscores(_)
CollapseUnderscores(s) ==
    IF Len(s) < 2 THEN s
    ELSE IF s[1] = "_" /\ s[2] = "_" THEN CollapseUnderscores(Tail(s))
    ELSE <<s[1]>> \o CollapseUnderscores(Tail(s))

slugify(name) ==
    LET n == CollapseUnderscores(DropOtherChars(SpacesToUnderscores(Strip(name))))
    IN  IF n = <<>> THEN <<"f","i","l","e">> ELSE n

-----------------------------------------------------------------------------
(* Paths (pathlib.PurePath) *)

Parent(p) == SubSeq(p, 1, Len(p) - 1)
Name(p) == p[Len(p)]

\* q is p or an ancestor of p
IsPrefix(q, p) == Len(q) <= Len(p) /\ SubSeq(p, 1, Len(q)) = q

\* index of the last "." of a name, 0 when it has none (str.rfind, 1-based)
LastDot(n) ==
    IF \E k \in DOMAIN n : n[k] = "."
    THEN CHOOSE k \in DOMAIN n : n[k] = "." /\ \A j \in (k + 1)..Len(n) : n[j] # "."
    ELSE 0

\* PurePath.suffix: from the last dot, unless it leads or ends the name
Suffix(n) ==
    LET d == LastDot(n)
    IN  IF 1 < d /\ d < Len(n) THEN SubSeq(n, d, Len(n)) ELSE <<>>

\* PurePath.stem
Stem(n) ==
    LET d == LastDot(n)
    IN  IF 1 < d /\ d < Len(n) THEN SubSeq(n, 1, d - 1) ELSE n

\* the components of a relative path string: split at "/", "" and "." dropped
RECURSIVE Parts(_, _)
Parts(s, cur) ==
    LET done == IF cur = <<>> \/ cur = <<".">> THEN <<>> ELSE <<cur>>
    IN  IF s = <<>> THEN done
        ELSE IF s[1] = "/" THEN done \o Parts(Tail(s), <<>>)
        ELSE Parts(Tail(s), Append(cur, s[1]))

\* path / string (an absolute string replaces the path)
Div(p, s) ==
    IF s # <<>> /\ s[1] = "/" THEN Parts(s, <<>>) ELSE p \o Parts(s, <<>>)

\* p.with_name(name)
WithName(p, n) == Append(Parent(p), n)

-----------------------------------------------------------------------------
(* The disk *)

\* files stem_2<suffix> .. stem_hi<suffix> of bulk entry b: is p one of them
InBulk(p, b) ==
    /\ p # <<>>
    /\ Parent(p) = b.dir
    /\ LET n == Name(p)
           pre == Append(b.stem, "_")
           lo == Len(pre) + 1
           hi == Len(n) - Len(b.suffix)
       IN  /\ lo <= hi
           /\ SubSeq(n, 1, Len(pre)) = pre
           /\ SubSeq(n, hi + 1, Len(n)) = b.suffix
           /\ IsDec(SubSeq(n, lo, hi))
           /\ DecVal(SubSeq(n, lo, hi)) \in 2..b.hi

\* Path.is_file()
IsFile(p) == p \in DOMAIN files \/ \E b \in bulk : InBulk(p, b)

\* Path.is_dir()
IsDir(p) == p \in dirs

\* Path.exists()
Exists(p) == IsFile(p) \/ IsDir(p)

\* the entries below directory d that are kept one by one on the disk
Children(d) == {p \in (DOMAIN files) \cup dirs : p # <<>> /\ Parent(p) = d}

\* every order in which os.scandir can list a set of entries
Orders(S) ==
    {o \in [1..Cardinality(S) -> S] : \A i, j \in DOMAIN o : i # j => o[i] # o[j]}

\* in_root.rglob("*"): the directories in preorder, the children of each in the
\* order scandir lists them; every sequence a scandir order can produce.
\* The numbered files of `bulk' are left out: Init puts them only inside a
\* category folder of in_root, where the loop skips every entry it is given.
RECURSIVE Walks(_), SubWalks(_)
Walks(d) ==
    UNION {{o \o w : w \in SubWalks(SelectSeq(o, IsDir))} : o \in Orders(Children(d))}
SubWalks(ds) ==
    IF ds = <<>> THEN {<<>>}
    ELSE {w \o r : w \in Walks(Head(ds)), r \in SubWalks(Tail(ds))}

-----------------------------------------------------------------------------
(* Rules *)

Other == <<"O","t","h","e","r">>

\* dict.get(key, default)
Get(d, key, default) == IF key \in DOMAIN d THEN d[key] ELSE default

\* a loop that keeps looking after a match: the last category that lists ext
RECURSIVE LastFolder(_, _, _)
LastFolder(ext, items, default) ==
    IF items = <<>> THEN default
    ELSE IF ext \in {Lower(e) : e \in Range(items[Len(items)][2])}
    THEN items[Len(items)][1]
    ELSE LastFolder(ext, SubSeq(items, 1, Len(items) - 1), default)

\* the loop of extension_bucket over rules["folders"].items()
RECURSIVE FirstFolder(_, _, _)
FirstFolder(ext, items, default) ==
    IF items = <<>> THEN default
    ELSE IF ext \in {Lower(e) : e \in Range(items[1][2])} THEN items[1][1]
    ELSE FirstFolder(ext, Tail(items), default)

extension_bucket(ext, r) ==
    FirstFolder(Lower(ext), Get(r, "folders", <<>>), Get(r, "unknown_folder", Other))

-----------------------------------------------------------------------------
(* unique_path *)

\* range(2, 10_000) stops before this counter
CounterStop == 10000

\* p.with_name(f"{stem}_{i}{suffix}") for stem, suffix = p.stem, p.suffix
Numbered(p, stem, suffix, i) == WithName(p, stem \o <<"_">> \o Dec(i) \o suffix)

\* the loop finds no free name and falls through to the raise
UniqueRaises(p) ==
    LET stem == Stem(Name(p))
        suffix == Suffix(Name(p))
    IN  /\ Exists(p)
        /\ \A i \in 2..(CounterStop - 1) : Exists(Numbered(p, stem, suffix, i))

\* a loop that counts up from 1 instead of 2
unique_path_from_1(p) ==
    LET stem == Stem(Name(p))
        suffix == Suffix(Name(p))
    IN  IF ~Exists(p) THEN p
        ELSE Numbered(p, stem, suffix,
                 CHOOSE i \in 1..(CounterStop - 1) :
                    /\ ~Exists(Numbered(p, stem, suffix, i))
                    /\ \A j \in 1..(i - 1) : Exists(Numbered(p, stem, suffix, j)))

\* the path unique_path returns (when it does not raise): p, or the candidate
\* of the first counter, counting up from 2, that does not exist
unique_path(p) ==
    LET stem == Stem(Name(p))
        suffix == Suffix(Name(p))
    IN  IF ~Exists(p) THEN p
        ELSE Numbered(p, stem, suffix,
                 CHOOSE i \in 2..(CounterStop - 1) :
                    /\ ~Exists(Numbered(p, stem, suffix, i))
                    /\ \A j \in 2..(i - 1) : Exists(Numbered(p, stem, suffix, j)))

-----------------------------------------------------------------------------
(* plan_actions *)

organized_top_folders ==
    {f[1] : f \in Range(Get(rules, "folders", <<>>))}
    \cup {Get(rules, "unknown_folder", Other)}

\* item.parent.relative_to(in_root).parts
RelParentParts(item) == SubSeq(item, Len(in_root) + 1, Len(item) - 1)

\* the test made on the path of the entry itself instead of its parent's
UnderOrganizedOwnPath(item) ==
    LET parts == SubSeq(item, Len(in_root) + 1, Len(item))
    IN  Len(parts) >= 1 /\ parts[1] \in organized_top_folders

\* the source already lies under a recognized bucket folder
UnderOrganized(item) ==
    LET parts == RelParentParts(item)
    IN  Len(parts) >= 1 /\ parts[1] \in organized_top_folders

\* the three `continue' tests of the loop
Skipped(item) ==
    \/ IsDir(item)
    \/ Name(item)[1] = "."
    \/ UnderOrganized(item)

TargetName(item) == IF rename THEN slugify(Name(item)) ELSE Name(item)

\* target_dir / target_name, the argument of unique_path
Candidate(item) ==
    Div(Div(out_root, extension_bucket(Suffix(Name(item)), rules)), TargetName(item))

\* what one pass of the loop does to plans; the RuntimeError of unique_path
\* leaves the function without a plan
PlanItem ==
    /\ pc = "planning"
    /\ walk # <<>>
    /\ LET item == Head(walk)
           cand == Candidate(item)
       IN  IF Skipped(item)
           THEN /\ walk' = Tail(walk)
                /\ UNCHANGED <<plans, pc>>
           ELSE IF UniqueRaises(cand)
           THEN /\ pc' = "raised"
                /\ UNCHANGED <<plans, walk>>
           ELSE /\ plans' = Append(plans, [src |-> item, dst |-> unique_path(cand)])
                /\ walk' = Tail(walk)
                /\ UNCHANGED pc
    /\ UNCHANGED <<files, dirs, bulk, in_root, out_root, rules, rename, dry_run,
                   log, idx, run, files0, dirs0, hist>>

\* plans = [] and the start of the traversal
PlanStart ==
    /\ pc = "plan"
    /\ \E w \in Walks(in_root) : walk' = w
    /\ plans' = <<>>
    /\ files0' = files
    /\ dirs0' = dirs
    /\ pc' = "planning"
    /\ UNCHANGED <<files, dirs, bulk, in_root, out_root, rules, rename, dry_run,
                   log, idx, run, hist>>

\* the for loop has run over every entry of the traversal
LoopOver == walk = <<>>

\* return plans, after the loop
PlanReturn ==
    /\ pc = "planning"
    /\ LoopOver
    /\ pc' = "planned"
    /\ UNCHANGED <<files, dirs, bulk, in_root, out_root, rules, rename, dry_run,
                   walk, plans, log, idx, run, files0, dirs0, hist>>

-----------------------------------------------------------------------------
(* main *)

in_place == out_root = in_root

\* p and its ancestors below the filesystem root
PathAndParents(p) == {SubSeq(p, 1, n) : n \in 1..Len(p)}

\* mkdir(parents=True, exist_ok=True) raises when a regular file is in the way
MkdirFails(d) == \E q \in PathAndParents(d) : IsFile(q)

\* ensure_clean_output_folder: a separate output folder is created and must be empty
EnsureCleanOutputFolder ==
    /\ pc = "start"
    /\ IF in_place
       THEN /\ pc' = "plan"
            /\ UNCHANGED dirs
       ELSE /\ dirs' = dirs \cup PathAndParents(out_root)
            /\ pc' = IF Children(out_root) # {} THEN "exit" ELSE "plan"
    /\ UNCHANGED <<files, bulk, in_root, out_root, rules, rename, dry_run,
                   walk, plans, log, idx, run, files0, dirs0, hist>>

\* one line "<src> -> <dst>" per planned move
LogLines(ps) == [k \in DOMAIN ps |-> <<ps[k].src, ps[k].dst>>]

\* main without its call of write_log
WriteLogLeftOut ==
    /\ pc = "planned"
    /\ pc' = "apply"
    /\ UNCHANGED <<files, dirs, bulk, in_root, out_root, rules, rename, dry_run,
                   walk, plans, log, idx, run, files0, dirs0, hist>>

\* write_log(plans, log_path); the logs folder of the working directory lies
\* outside both roots, so the log is kept apart from the disk
WriteLog ==
    /\ pc = "planned"
    /\ log' = LogLines(plans)
    /\ pc' = "apply"
    /\ UNCHANGED <<files, dirs, bulk, in_root, out_root, rules, rename, dry_run,
                   walk, plans, idx, run, files0, dirs0, hist>>

-----------------------------------------------------------------------------
(* apply *)

\* apply without its dry-run test
ApplySkipsNever == FALSE

\* if dry_run: return
ApplySkips == dry_run

ApplyDryRun ==
    /\ pc = "apply"
    /\ ApplySkips
    /\ pc' = "done"
    /\ UNCHANGED <<files, dirs, bulk, in_root, out_root, rules, rename, dry_run,
                   walk, plans, log, idx, run, files0, dirs0, hist>>

\* where shutil.move and shutil.copy2 put the file: into dst when dst is a directory
RealDst(src, dst) == IF IsDir(dst) THEN Append(dst, Name(src)) ELSE dst

\* the move or copy of one planned move cannot be carried out on this disk
TransferFails(src, dst) ==
    \/ ~IsFile(src)
    \/ /\ IsDir(dst)
       /\ IF in_place THEN Exists(RealDst(src, dst)) ELSE IsDir(RealDst(src, dst))

\* shutil.move(src, dst): the file is renamed, replacing a file at dst
MoveFile(fs, src, dst) ==
    [q \in ((DOMAIN fs) \ {src}) \cup {dst} |-> IF q = dst THEN fs[src] ELSE fs[q]]

\* shutil.copy2(src, dst): the content is written to dst, the source stays
CopyFile(fs, src, dst) ==
    [q \in (DOMAIN fs) \cup {dst} |-> IF q = dst THEN fs[src] ELSE fs[q]]

\* a loop that catches the exception and goes on with the next planned move
AfterErrorGoOn(k) == [pc |-> "apply", idx |-> k + 1]

\* where main is after an exception left the loop of apply
AfterError(k) == [pc |-> "failed", idx |-> k]

\* one pass of the loop of apply.  fault is what the environment refuses
\* (permission denied, disk full): nothing, or the move/copy
ApplyStep ==
    /\ pc = "apply"
    /\ ~ApplySkips
    /\ idx <= Len(plans)
    /\ \E fault \in {"none", "transfer"} :
         LET p == plans[idx]
             parent == Parent(p.dst)
             made == dirs \cup PathAndParents(parent)
             real == RealDst(p.src, p.dst)
         IN  IF MkdirFails(parent)
             THEN /\ pc' = AfterError(idx).pc
                  /\ idx' = AfterError(idx).idx
                  /\ UNCHANGED <<files, dirs>>
             ELSE IF fault = "transfer" \/ TransferFails(p.src, p.dst)
             THEN /\ pc' = AfterError(idx).pc
                  /\ idx' = AfterError(idx).idx
                  /\ dirs' = made
                  /\ UNCHANGED files
             ELSE /\ dirs' = made
                  /\ files' = IF in_place THEN MoveFile(files, p.src, real)
                                          ELSE CopyFile(files, p.src, real)
                  /\ idx' = idx + 1
                  /\ UNCHANGED pc
    /\ UNCHANGED <<bulk, in_root, out_root, rules, rename, dry_run,
                   walk, plans, log, run, files0, dirs0, hist>>

\* the loop is over
ApplyReturn ==
    /\ pc = "apply"
    /\ ~ApplySkips
    /\ idx > Len(plans)
    /\ pc' = "done"
    /\ UNCHANGED <<files, dirs, bulk, in_root, out_root, rules, rename, dry_run,
                   walk, plans, log, idx, run, files0, dirs0, hist>>

\* the tool is invoked again with the same arguments on the disk as it is now
Rerun ==
    /\ pc = "done"
    /\ run < MaxRuns
    /\ run' = run + 1
    /\ hist' = [plans |-> plans, files |-> files0, dirs |-> dirs0,
                applied |-> ~dry_run]
    /\ pc' = "start"
    /\ walk' = <<>>
    /\ plans' = <<>>
    /\ log' = <<>>
    /\ idx' = 1
    /\ UNCHANGED <<files, dirs, bulk, in_root, out_root, rules, rename, dry_run,
                   files0, dirs0>>

-----------------------------------------------------------------------------
(* The disks, rules and arguments the runs start from *)

InDir == <<"i","n">>
OutDir == <<"o","u","t">>
Docs == <<"D","o","c","s">>
TXT == <<".","t","x","t">>
X_TXT == <<"x",".","t","x","t">>

\* the files a tree below in_root is chosen from; a file's content is its index
FileUniverse ==
    << <<X_TXT>>,
       << <<"a">>, X_TXT >>,
       << <<"a">>, <<"x","!",".","t","x","t">> >>,
       << <<".","h">> >>,
       << Docs, X_TXT >>,
       << Other >>,
       << <<"b">>, <<"Y",".","T","X","T">> >> >>

Trees == {S \in SUBSET DOMAIN FileUniverse : Cardinality(S) <= MaxFiles}

TreeFiles(S) ==
    [p \in {<<InDir>> \o FileUniverse[k] : k \in S} |->
        CHOOSE k \in S : <<InDir>> \o FileUniverse[k] = p]

TreeDirs(S) ==
    {<<InDir>>} \cup UNION {PathAndParents(Parent(<<InDir>> \o FileUniverse[k])) : k \in S}

\* a file left in the output folder by an earlier copy
OldCopy == (<<OutDir, X_TXT>> :> 0)

\* two categories that share an extension, a configured fallback
RulesOverlap ==
    [folders |-> << <<Docs, <<TXT>>>>,
                    << <<"I","m","g">>, << <<".","T","X","T">>, <<".","j","p","g">> >> >> >>,
     unknown_folder |-> <<"M","i","s","c">>]

\* an upper-case extension in the rules, no fallback configured
RulesNoFallback ==
    [folders |-> << <<Docs, << <<".","T","X","T">> >> >> >>]

\* a category that is a folder inside a folder
RulesNested ==
    [folders |-> << << <<"D","/","T">>, <<TXT>> >> >>,
     unknown_folder |-> Other]

RuleSets == {RulesOverlap, RulesNoFallback, RulesNested}

\* x_2.txt .. x_hi.txt in the Docs folder of in_root
NumberedDocs(hi) == [dir |-> <<InDir, Docs>>, stem |-> <<"x">>, suffix |-> TXT, hi |-> hi]

\* the trees that come with a numbered run (x_2.txt alone, x_2.txt .. x_9998.txt
\* or x_2.txt .. x_9999.txt): x.txt is to be filed beside Docs/x.txt
NumberedTrees == {{1, 5}, {1, 5, 7}}

Init ==
    /\ in_root = <<InDir>>
    /\ rules \in RuleSets
    /\ rename \in BOOLEAN
    /\ dry_run \in BOOLEAN
    /\ \E S \in Trees, out \in {"in_place", "new", "used"} :
         /\ out_root = IF out = "in_place" THEN <<InDir>> ELSE <<OutDir>>
         /\ files = IF out = "used" THEN TreeFiles(S) @@ OldCopy ELSE TreeFiles(S)
         /\ dirs = IF out = "used" THEN TreeDirs(S) \cup {<<OutDir>>} ELSE TreeDirs(S)
         /\ bulk \in {{}} \cup
                {{NumberedDocs(hi)} : hi \in
                    IF out = "in_place" /\ S \in NumberedTrees
                       /\ rules = RulesOverlap /\ ~rename
                    THEN {2, CounterStop - 2, CounterStop - 1} ELSE {}}
    /\ pc = "start"
    /\ walk = <<>>
    /\ plans = <<>>
    /\ log = <<>>
    /\ idx = 1
    /\ run = 1
    /\ files0 = files
    /\ dirs0 = dirs
    /\ hist = [plans |-> <<>>, files |-> files, dirs |-> dirs, applied |-> FALSE]

Next ==
    \/ EnsureCleanOutputFolder
    \/ PlanStart
    \/ PlanItem
    \/ PlanReturn
    \/ WriteLog
    \/ ApplyDryRun
    \/ ApplyStep
    \/ ApplyReturn
    \/ Rerun

Spec == Init /\ [][Next]_vars

-----------------------------------------------------------------------------
(* Properties *)

\* the entries below in_root that are kept one by one on the disk
Entries == {p \in (DOMAIN files) \cup dirs : IsPrefix(in_root, p) /\ p # in_root}

\* the rule categories and the fallback category
CategoryNames ==
    (IF "folders" \in DOMAIN rules
     THEN {rules.folders[k][1] : k \in DOMAIN rules.folders} ELSE {})
    \cup {IF "unknown_folder" \in DOMAIN rules THEN rules.unknown_folder ELSE Other}

Sources == {plans[k].src : k \in DOMAIN plans}

DistinctSources == \A i, j \in DOMAIN plans : i # j => plans[i].src # plans[j].src

\* C1: the plan plan_actions returns has pairwise distinct destinations, none of
\* which exists on the disk
C1_NoCollision ==
    pc = "planned" =>
        /\ \A i, j \in DOMAIN plans : i # j => plans[i].dst # plans[j].dst
        /\ \A i \in DOMAIN plans : ~Exists(plans[i].dst)

\* C2: after an in-place run that was applied to the end, the plan of the next
\* run with the same arguments is empty
C2_SecondPlanEmpty ==
    (run > 1 /\ hist.applied /\ in_place /\ pc = "planned") => plans = <<>>

\* C3: in a dry run the files and directories are, from the start of
\* plan_actions to the return of apply, what they were when plan_actions started
C3_DryRunChangesNothing ==
    (dry_run /\ pc \in {"planning", "planned", "apply", "done"}) =>
        /\ files = files0
        /\ dirs = dirs0

C3_Witness ==
    /\ dry_run
    /\ pc = "done"
    /\ Len(plans) >= 2
    /\ ~in_place

\* C4 as stated: the sources are the entries that are no directory, whose name
\* does not start with "." and whose own path relative to in_root does not
\* start with a category name; each once
C4_SourcesByOwnPath ==
    pc = "planned" =>
        /\ Sources = {e \in Entries :
                        /\ ~IsDir(e)
                        /\ Name(e)[1] # "."
                        /\ e[Len(in_root) + 1] \notin CategoryNames}
        /\ DistinctSources

\* C4 amended: the sources are the entries that are no directory, whose name does
\* not start with "." and that do not lie inside a directory directly below
\* in_root that is named like a category; each once
C4_SourcesByParent ==
    pc = "planned" =>
        /\ Sources = {e \in Entries :
                        /\ ~IsDir(e)
                        /\ Name(e)[1] # "."
                        /\ ~(/\ Len(e) >= Len(in_root) + 2
                             /\ e[Len(in_root) + 1] \in CategoryNames)}
        /\ DistinctSources

C4_Witness ==
    /\ pc = "planned"
    /\ Other \in CategoryNames
    /\ Append(in_root, Other) \in Sources
    /\ \E e \in Entries : ~IsDir(e) /\ e \notin Sources

\* C5: two runs of plan_actions on the same tree with the same arguments return
\* the same plan, the same pairs in the same order
C5_SamePlanTwice ==
    (run > 1 /\ pc = "planned" /\ files0 = hist.files /\ dirs0 = hist.dirs) =>
        plans = hist.plans

\* C6: main goes start, plan, planned (logged), apply, done; files change only
\* in apply, of a run that is no dry run, when the traversal is exhausted, the
\* plan is the one returned and the log holds its lines in plan order; a plan
\* that unique_path aborts leaves the files as they were
C6_TwoPhase ==
    [][ /\ <<pc, pc'>> \in {<<"start", "plan">>, <<"start", "exit">>,
                           <<"plan", "planning">>, <<"planning", "planning">>,
                           <<"planning", "planned">>, <<"planning", "raised">>,
                           <<"planned", "apply">>, <<"apply", "apply">>,
                           <<"apply", "done">>, <<"apply", "failed">>,
                           <<"done", "start">>}
        /\ files' # files =>
              /\ pc = "apply"
              /\ ~dry_run
              /\ walk = <<>>
              /\ plans' = plans
              /\ log = [k \in DOMAIN plans |-> <<plans[k].src, plans[k].dst>>]
        /\ pc' = "raised" => files' = files0
        /\ pc' = "apply" => (plans' = plans /\ log' = [k \in DOMAIN plans |->
                                                <<plans[k].src, plans[k].dst>>])
      ]_vars

C6_Witness ==
    /\ pc = "apply"
    /\ ~dry_run
    /\ idx = 3
    /\ files # files0

\* C7: apply carries the planned moves out in plan order and stops at the first
\* that fails: the moves before it stay applied and the moves after it have had
\* no effect, their sources are as planned and no destination holds their content
C7_StopsAtFailure ==
    (pc \in {"apply", "failed"} /\ ~dry_run) =>
        /\ idx \in 1..(Len(plans) + 1)
        /\ pc = "failed" => idx <= Len(plans)
        /\ \A i \in 1..(idx - 1) :
              /\ IsFile(plans[i].dst)
              /\ IF in_place THEN ~IsFile(plans[i].src)
                 ELSE IsFile(plans[i].src) /\ files[plans[i].src] = files0[plans[i].src]
        /\ \A j \in idx..Len(plans) :
              /\ IsFile(plans[j].src)
              /\ files[plans[j].src] = files0[plans[j].src]
              /\ \A q \in (DOMAIN files) \ {plans[j].src} :
                    files[q] # files0[plans[j].src]

C7_Witness ==
    /\ pc = "failed"
    /\ 1 < idx
    /\ idx < Len(plans)

\* stem_<i><suffix> beside path c
CounterPath(c, i) ==
    Append(Parent(c), Stem(Name(c)) \o <<"_">> \o Dec(i) \o Suffix(Name(c)))

\* C8: unique_path returns its argument when it does not exist; otherwise
\* stem_<i><suffix> beside it for the smallest i in 2..9999 that does not exist;
\* it raises exactly when the argument and all of the counters 2..9999 exist
C8_UniquePath ==
    [][ (pc = "planning" /\ walk # <<>> /\ ~Skipped(Head(walk))) =>
          LET c == Candidate(Head(walk))
              t == plans'[Len(plans')].dst
          IN  IF pc' = "raised"
              THEN /\ Exists(c)
                   /\ \A i \in 2..9999 : Exists(CounterPath(c, i))
                   /\ plans' = plans
              ELSE /\ Len(plans') = Len(plans) + 1
                   /\ IF ~Exists(c) THEN t = c
                      ELSE \E i \in 2..9999 :
                              /\ t = CounterPath(c, i)
                              /\ ~Exists(t)
                              /\ \A j \in 2..(i - 1) : Exists(CounterPath(c, j))
      ]_vars

C8_Witness ==
    \E k \in DOMAIN plans :
        plans[k].dst = <<InDir, Docs, <<"x","_","9","9","9","9",".","t","x","t">> >>

\* two strings are equal up to the case of their letters
SameIgnoringCase(a, b) ==
    /\ Len(a) = Len(b)
    /\ \A k \in DOMAIN a :
          \/ a[k] = b[k]
          \/ \E n \in DOMAIN UpperChars :
                {a[k], b[k]} = {UpperChars[n], LowerChars[n]}

\* the categories that list extension ext, by position in the rules
Listing(ext) ==
    IF "folders" \in DOMAIN rules
    THEN {k \in DOMAIN rules.folders :
            \E e \in Range(rules.folders[k][2]) : SameIgnoringCase(e, ext)}
    ELSE {}

\* C9: every planned move goes to the folder of the first category, in the order
\* of the rules, that lists the file's extension up to case; when none does (as
\* for a name without extension) to the configured fallback, or to "Other"
C9_Bucket ==
    \A k \in DOMAIN plans :
        LET ext == Suffix(Name(plans[k].src))
            into == Parent(plans[k].dst)
        IN  IF Listing(ext) = {}
            THEN IF "unknown_folder" \in DOMAIN rules
                 THEN into = Div(out_root, rules.unknown_folder)
                 ELSE into = Div(out_root, Other)
            ELSE \E n \in Listing(ext) :
                    /\ \A m \in Listing(ext) : n <= m
                    /\ into = Div(out_root, rules.folders[n][1])

C9_Witness ==
    /\ rules = RulesOverlap
    /\ \E k \in DOMAIN plans : Suffix(Name(plans[k].src)) = <<".","T","X","T">>
    /\ \E k \in DOMAIN plans : Suffix(Name(plans[k].src)) = <<>>

\* C10: after a run applied to the end every planned move's destination holds
\* the content its source had when the plan was made
C10_NothingLost ==
    (pc = "done" /\ ~dry_run) =>
        \A k \in DOMAIN plans :
            /\ IsFile(plans[k].dst)
            /\ files[plans[k].dst] = files0[plans[k].src]

=============================================================================
